---- MODULE Spec2Model ----
(***************************************************************************)
(* Reddit commenter bot: the stream worker (bot_core.py), the dedup store  *)
(* (replied_comments.txt and its in-memory cache), the desktop review UI   *)
(* (ui.py) with its poster threads, and the CLI review loop (main.py).     *)
(*                                                                         *)
(* Texts (comment ids, bodies, keywords, the log file) are sequences of    *)
(* one-character strings.  Threads are interleaved at their accesses to    *)
(* shared state: the stream worker's lazy load of the log is three steps   *)
(* (test the cache, read the file, assign the cache), a poster thread's    *)
(* post is one step per call and per assignment.                           *)
(***************************************************************************)
EXTENDS Integers, Sequences, FiniteSets, TLC

\* PendingReply objects made over all runs of the program: the stream goes
\* quiet once that many were made.
MaxItems == 3
\* Times the program is started again on the same log file.
MaxRestarts == 1

None == "None"

----------------------------------------------------------------------------
(* Text *)

\* str.lower() on the alphabet of the model
LowerChar(ch) ==
    CASE ch = "A" -> "a"
      [] ch = "B" -> "b"
      [] ch = "C" -> "c"
      [] ch = "Y" -> "y"
      [] OTHER -> ch

Lower(s) == [i \in 1..Len(s) |-> LowerChar(s[i])]

IsSpace(ch) == ch \in {" ", "\n"}

RECURSIVE LStrip(_)
LStrip(s) == IF s # <<>> /\ IsSpace(Head(s)) THEN LStrip(Tail(s)) ELSE s

RECURSIVE RStrip(_)
RStrip(s) ==
    IF s # <<>> /\ IsSpace(s[Len(s)]) THEN RStrip(SubSeq(s, 1, Len(s) - 1)) ELSE s

\* str.strip()
Strip(s) == RStrip(LStrip(s))

\* Python's `sub in s` on strings
Contains(sub, s) ==
    \E i \in 0..(Len(s) - Len(sub)) : SubSeq(s, i + 1, i + Len(sub)) = sub

\* The lines a text file yields when iterated: each ends at its "\n", the last
\* one at the end of the file.
RECURSIVE SplitLines(_, _)
SplitLines(text, line) ==
    IF text = <<>> THEN (IF line = <<>> THEN <<>> ELSE <<line>>)
    ELSE IF Head(text) = "\n"
         THEN <<Append(line, "\n")>> \o SplitLines(Tail(text), <<>>)
         ELSE SplitLines(Tail(text), Append(line, Head(text)))

----------------------------------------------------------------------------
(* Configuration and the comments of the subreddit *)

\* config.ini, [settings] keywords, split at its commas: " BC,b, "
KeywordsSetting == << <<" ", "B", "C">>, <<"b">>, <<" ">> >>

RECURSIVE KeywordList(_)
KeywordList(raw) ==
    IF raw = <<>> THEN <<>>
    ELSE IF Strip(Head(raw)) # <<>>
         THEN <<Lower(Strip(Head(raw)))>> \o KeywordList(Tail(raw))
         ELSE KeywordList(Tail(raw))

KEYWORDS == KeywordList(KeywordsSetting)

\* The account the bot posts as ([reddit] username).
BotName == "bot1"

\* What reddit.user.me() can give as the name: the account, or nothing.
UserNames == {BotName, None}

\* The comments the stream gives: c1 holds both keywords, c3 is the bot's own
\* and holds the second keyword only, c4 has lost its author and holds none.
c1 == <<"c", "1">>
c3 == <<"c", "3">>
c4 == <<"c", "4">>

CommentIds == {c1, c3, c4}

\* comment.author.name, None for a deleted author
Author(c) ==
    CASE c = c1 -> "u1"
      [] c = c3 -> BotName
      [] OTHER -> None

\* comment.body
Body(c) ==
    CASE c = c1 -> <<"a", "B", "c">>
      [] c = c3 -> <<"c", "B">>
      [] OTHER -> <<"a", "c">>

----------------------------------------------------------------------------
(* State *)

VARIABLES
    frontend,           \* "gui" (ui.py) or "cli" (main.py)
    runs,               \* restarts so far
    replied_file,       \* the text of replied_comments.txt
    replied_ids_cache,  \* RedditBot.replied_ids_cache
    current_username,   \* RedditBot.current_username
    stop_event,         \* RedditBot._stop_event
    spc,                \* where the thread running iter_pending_replies is
    comment,            \* the comment _evaluate_comment is working on
    loaded,             \* the ids _load_replied_ids has read and not yet assigned
    pending_queue,      \* BotUI.pending_queue
    pending_buffer,     \* BotUI.pending_buffer
    current_pending,    \* BotUI.current_pending
    action_buttons,     \* Approve and Skip are enabled
    refresh_button,     \* Refresh is enabled
    posting_lock,       \* BotUI._posting_lock is held
    ui_alive,           \* the Tk root exists
    calls,              \* the running post_reply calls: poster threads, or the CLI's
    emitted,            \* history: PendingReply objects created so far
    posts,              \* history: replies published, per comment id
    approved,           \* history: items the operator approved
    discarded,          \* history: items the operator skipped or declined
    last,               \* history: how the last _evaluate_comment call ended
    has_result,         \* history (SpecStore): the has_already_replied call made
                        \* last, since the last record_reply, and its result
    completed,          \* history: ids whose record_reply call returned
    fn_call             \* a function applied on its own: its name, its arguments
                        \* and, once it has returned, its result

storeVars == <<replied_file, replied_ids_cache>>
botVars == <<current_username, stop_event, spc, comment, loaded>>
uiVars == <<pending_queue, pending_buffer, current_pending, action_buttons,
            refresh_button, posting_lock, ui_alive>>
histVars == <<emitted, posts, approved, discarded, last, has_result, completed>>
vars == <<frontend, runs, storeVars, botVars, uiVars, calls, histVars, fn_call>>

\* No function is applied on its own.
NoFn == [fn |-> "none"]

NoComment == <<>>
NoKeyword == <<>>

NoText == <<>>

\* PendingReply: n tells apart two objects made for the same comment.  Its
\* suggested_reply is kept in the record of the evaluation that made it (last).
NoItem == [n |-> 0, id |-> NoComment, kw |-> NoKeyword]

\* ("error", stream_error), what _stream_worker queues when the generator raises
ErrorMarker == [n |-> -1, id |-> NoComment, kw |-> NoKeyword]

\* isinstance(item, PendingReply)
IsPendingReply(item) == item.n > 0

NoEval == [id |-> NoComment, known |-> FALSE, recorded |-> FALSE, verdict |-> "none",
           kw |-> NoKeyword, context |-> FALSE, generated |-> FALSE, text |-> NoText]
NoHas == [id |-> NoComment, result |-> FALSE]
\* A delivered comment, with what held when it arrived: its id was in the store
\* (known), a record_reply call for its id had returned (recorded).
NoEvent == [id |-> NoComment, known |-> FALSE, recorded |-> FALSE]

----------------------------------------------------------------------------
(* Dedup store: bot_core.py 221-237 *)

RECURSIVE StrippedLines(_)
StrippedLines(lines) ==
    IF lines = <<>> THEN {}
    ELSE (IF Strip(Head(lines)) # <<>> THEN {Strip(Head(lines))} ELSE {})
         \cup StrippedLines(Tail(lines))

\* {line.strip() for line in file if line.strip()}
FileIds(text) == StrippedLines(SplitLines(text, <<>>))

\* The write without its line end.
AppendLine_NoNewline(text, id) == text \o id

\* file.write(f"{comment_id}\n") on a file opened for appending
AppendLine(text, id) == text \o id \o <<"\n">>

\* _load_replied_ids returns at once when the cache holds anything
CacheLoaded(cache) == cache # {}

\* Everything the store holds, in memory or on disk.
StoreIds == replied_ids_cache \cup FileIds(replied_file)

----------------------------------------------------------------------------
(* Thread context: bot_core.py 79-106 *)

\* Comments of one submission, numbered in the order they were written.
MaxComments == 4

\* A submission and its comments: parent[c] is the comment c replies to, 0 for
\* a top-level comment (parent() gives the submission); deleted holds the
\* comments whose author is None; selftext tells whether the submission has a
\* body.  A comment replies to something written before it.
Threads ==
    [parent : {p \in [1..MaxComments -> 0..(MaxComments - 1)] :
                  \A c \in 1..MaxComments : p[c] < c},
     deleted : SUBSET (1..MaxComments),
     selftext : BOOLEAN]

\* The while loop: the parents met on the way up, nearest first
RECURSIVE ParentComments(_, _)
ParentComments(thread, current) ==
    IF thread.parent[current] = 0 THEN <<>>
    ELSE <<thread.parent[current]>> \o ParentComments(thread, thread.parent[current])

\* The list left as the loop built it.
Reversed_Not(list) == list

\* parent_comments.reverse()
Reversed(list) == [i \in 1..Len(list) |-> list[Len(list) + 1 - i]]

\* comment.author.name if comment.author else "[deleted]"
AuthorName(thread, c) == IF c \in thread.deleted THEN "[deleted]" ELSE "name"

\* One element of context_parts: its label, the index in the label, the author
\* named, and whose body (of, 0 for the submission) or which text follows.
SubmissionTitle ==
    [kind |-> "Submission Title", index |-> 0, author |-> "", of |-> 0, text |-> "title"]
SubmissionBody(thread) ==
    [kind |-> "Submission Body", index |-> 0, author |-> "", of |-> 0,
     text |-> IF thread.selftext THEN "selftext" ELSE "[No submission body]"]
ParentComment(thread, index, c) ==
    [kind |-> "Parent Comment", index |-> index, author |-> AuthorName(thread, c),
     of |-> c, text |-> "body"]
TriggerComment(thread, c) ==
    [kind |-> "Trigger Comment", index |-> 0, author |-> AuthorName(thread, c),
     of |-> c, text |-> "body"]

\* get_thread_context: context_parts, which the function joins with blank lines
get_thread_context(thread, c) ==
    LET parent_comments == Reversed(ParentComments(thread, c))
    IN <<SubmissionTitle, SubmissionBody(thread)>>
       \o [i \in 1..Len(parent_comments) |-> ParentComment(thread, i, parent_comments[i])]
       \o <<TriggerComment(thread, c)>>


FALLBACK_REPLY == <<"f", "b">>

\* choices[0]["message"]: a dict with or without "content", JSON null, or no
\* such key.
Msg(content) == [t |-> "dict", has_content |-> TRUE, content |-> content]
MsgNoContent == [t |-> "dict", has_content |-> FALSE, content |-> NoText]
MsgNull == [t |-> "null", has_content |-> FALSE, content |-> NoText]
MsgAbsent == [t |-> "absent", has_content |-> FALSE, content |-> NoText]

\* response.json(): an object with its "choices", or a JSON array
Data(msgs) == [t |-> "dict", choices |-> msgs]
DataList == [t |-> "list", choices |-> <<>>]

\* What one call of the chat-completions endpoint meets: whether
\* OPENAI_API_KEY is set, whether the request goes through (requests.post and
\* raise_for_status), and the JSON body of the response.
ApiReplies ==
    [nokey |-> [key |-> FALSE, transport |-> "ok", data |-> Data(<<Msg(<<"h", "i">>)>>)],
     timeout |-> [key |-> TRUE, transport |-> "error", data |-> Data(<<>>)],
     nochoices |-> [key |-> TRUE, transport |-> "ok", data |-> Data(<<>>)],
     nomessage |-> [key |-> TRUE, transport |-> "ok", data |-> Data(<<MsgAbsent>>)],
     nocontent |-> [key |-> TRUE, transport |-> "ok", data |-> Data(<<MsgNoContent>>)],
     empty |-> [key |-> TRUE, transport |-> "ok", data |-> Data(<<Msg(<<>>)>>)],
     blank |-> [key |-> TRUE, transport |-> "ok", data |-> Data(<<Msg(<<" ">>)>>)],
     text |-> [key |-> TRUE, transport |-> "ok", data |-> Data(<<Msg(<<"h", "i">>)>>)],
     padded |-> [key |-> TRUE, transport |-> "ok",
                 data |-> Data(<<Msg(<<" ", "h", "i", "\n">>)>>)],
     nullmessage |-> [key |-> TRUE, transport |-> "ok", data |-> Data(<<MsgNull>>)],
     array |-> [key |-> TRUE, transport |-> "ok", data |-> DataList]]

ApiReplyNames == DOMAIN ApiReplies

\* What a Python call gives: a str, None, or an exception that leaves it.
PyStr(s) == [kind |-> "str", s |-> s]
PyNone == [kind |-> "none", s |-> NoText]
PyRaise == [kind |-> "raise", s |-> NoText]

\* _call_openai_api: only requests.RequestException is caught; data.get on an
\* array and message.get on None raise AttributeError.
call_openai_api(r) ==
    IF ~r.key THEN PyNone
    ELSE IF r.transport = "error" THEN PyNone
    ELSE IF r.data.t # "dict" THEN PyRaise
    ELSE IF r.data.choices = <<>> THEN PyNone
    ELSE LET message == r.data.choices[1]
         IN IF message.t = "null" THEN PyRaise
            ELSE IF message.t = "absent" \/ ~message.has_content
                    \/ message.content = <<>> THEN PyNone
            ELSE PyStr(Strip(message.content))

\* generate_ai_comment
generate_ai_comment(r) ==
    LET ai_reply == call_openai_api(r)
    IN IF ai_reply.kind = "raise" THEN PyRaise
       ELSE IF ai_reply.kind = "str" /\ ai_reply.s # <<>> THEN ai_reply
       ELSE PyStr(FALLBACK_REPLY)

----------------------------------------------------------------------------
(* Stream worker: bot_core.py 239-291 *)

\* The stop signal read as never set.
StopRequested_Never == FALSE

\* self._stop_event.is_set()
StopRequested == stop_event

\* author_name == self.current_username, when a user name is known
IsSelf(c, username) == username # None /\ Author(c) = username

\* next((kw for kw in KEYWORDS if kw in body_lower), None)
RECURSIVE FirstMatch(_, _)
FirstMatch(kws, text) ==
    IF kws = <<>> THEN NoKeyword
    ELSE IF Contains(Head(kws), text) THEN Head(kws)
         ELSE FirstMatch(Tail(kws), text)

\* The first keyword of the list when none occurs.
MatchedKeyword_Default(c) ==
    IF FirstMatch(KEYWORDS, Lower(Body(c))) = NoKeyword THEN KEYWORDS[1]
    ELSE FirstMatch(KEYWORDS, Lower(Body(c)))

\* The last keyword of the list that occurs, not the first.
MatchedKeyword_Last(c) ==
    LET hits == {i \in 1..Len(KEYWORDS) : Contains(KEYWORDS[i], Lower(Body(c)))}
    IN IF hits = {} THEN NoKeyword
       ELSE KEYWORDS[CHOOSE i \in hits : \A j \in hits : j <= i]

MatchedKeyword(c) == FirstMatch(KEYWORDS, Lower(Body(c)))

Event(c) == [id |-> c, known |-> c \in StoreIds, recorded |-> c \in completed]

Verdict(ev, v, kw) ==
    [id |-> ev.id, known |-> ev.known, recorded |-> ev.recorded, verdict |-> v, kw |-> kw,
     context |-> v = "emit", generated |-> v = "emit", text |-> NoText]

\* authenticate: the second reddit.user.me() decides current_username
Authenticate(name) ==
    /\ spc = "auth"
    /\ current_username' = name
    /\ spc' = "loop"
    /\ UNCHANGED <<fn_call, frontend, runs, storeVars, stop_event, comment, loaded,
                   uiVars, calls, histVars>>

\* authenticate raises (praw.Reddit or the first reddit.user.me()): the
\* generator ends with the exception; _stream_worker queues the error marker,
\* main logs it and returns.
AuthenticateFails ==
    /\ spc = "auth"
    /\ spc' = "failed"
    /\ pending_queue' = IF frontend = "gui" THEN Append(pending_queue, ErrorMarker)
                        ELSE pending_queue
    /\ UNCHANGED <<fn_call, frontend, runs, storeVars, current_username, stop_event, comment,
                   loaded, pending_buffer, current_pending, action_buttons,
                   refresh_button, posting_lock, ui_alive, calls, histVars>>

\* The generator returns after the first failure of the stream.
LoopTest_Return == "done"

\* while not self._stop_event.is_set(): where the generator goes from the test
LoopTest == IF StopRequested THEN "done" ELSE "stream"

\* The first test of the loop: the stream is subscribed to, or the generator
\* returns
Subscribe ==
    /\ spc = "loop"
    /\ spc' = LoopTest
    /\ UNCHANGED <<fn_call, frontend, runs, storeVars, current_username, stop_event, comment,
                   loaded, uiVars, calls, histVars>>

\* The stream iteration raises: logged, time.sleep(10) begins
StreamError ==
    /\ spc = "stream"
    /\ spc' = "sleep"
    /\ UNCHANGED <<fn_call, frontend, runs, storeVars, current_username, stop_event, comment,
                   loaded, uiVars, calls, histVars>>

\* time.sleep(10) returns and the loop is tested again: the stream is
\* subscribed to again, or the generator returns
Wake ==
    /\ spc = "sleep"
    /\ spc' = LoopTest
    /\ UNCHANGED <<fn_call, frontend, runs, storeVars, current_username, stop_event, comment,
                   loaded, uiVars, calls, histVars>>

\* The exception of one event taken as a failure of the stream.
AfterCommentError_Resubscribe == "sleep"

\* except Exception as comment_error: logged inside the for loop, which goes on
\* to the next event of the stream
AfterCommentError == "stream"

\* The stream yields comment c: the stop check, the self filter, and the test
\* that opens _load_replied_ids.
Deliver(c) ==
    /\ spc = "stream"
    /\ emitted < MaxItems
    /\ IF StopRequested
       THEN /\ spc' = "done"
            /\ UNCHANGED <<comment, last>>
       ELSE IF IsSelf(c, current_username)
       THEN /\ spc' = "stream"
            /\ last' = Verdict(Event(c), "self", NoKeyword)
            /\ UNCHANGED comment
       ELSE /\ spc' = IF CacheLoaded(replied_ids_cache) THEN "test" ELSE "read"
            /\ comment' = Event(c)
            /\ UNCHANGED last
    /\ UNCHANGED <<fn_call, frontend, runs, storeVars, current_username, stop_event, loaded,
                   uiVars, calls, emitted, posts, approved, discarded,
                   has_result, completed>>

\* _load_replied_ids: the file is read (a missing file reads as empty), or
\* open/read raises something other than FileNotFoundError, which leaves
\* _evaluate_comment and is logged by the loop
LoadRead ==
    /\ spc = "read"
    /\ \/ /\ loaded' = FileIds(replied_file)
          /\ spc' = "assign"
          /\ UNCHANGED <<comment, last>>
       \/ /\ spc' = AfterCommentError
          /\ last' = Verdict(comment, "error", NoKeyword)
          /\ comment' = NoEvent
          /\ UNCHANGED loaded
    /\ UNCHANGED <<fn_call, frontend, runs, storeVars, current_username, stop_event,
                   uiVars, calls, emitted, posts, approved, discarded,
                   has_result, completed>>

\* _load_replied_ids: self.replied_ids_cache = {...}
LoadAssign ==
    /\ spc = "assign"
    /\ replied_ids_cache' = loaded
    /\ loaded' = {}
    /\ spc' = "test"
    /\ UNCHANGED <<fn_call, frontend, runs, replied_file, current_username, stop_event,
                   comment, uiVars, calls, histVars>>

\* No call of the generation is made.
NoCall == "none"

\* The rest of _evaluate_comment, and what the caller does with a PendingReply:
\* the stream thread of the UI queues it, the CLI loop prompts for it.
\* chain: get_thread_context returns (TRUE) or raises; r: what the generation
\* call meets, NoCall when the event is dropped or the chain builder raises
\* before it.  An exception leaves _evaluate_comment and is logged by the loop.
Evaluate(chain, r) ==
    /\ spc = "test"
    /\ LET c == comment.id
           kw == MatchedKeyword(c)
           dropped == c \in replied_ids_cache \/ kw = NoKeyword
           reply == IF r = NoCall THEN PyNone ELSE generate_ai_comment(ApiReplies[r])
           v == IF c \in replied_ids_cache THEN "dup"
                ELSE IF kw = NoKeyword THEN "nokw"
                ELSE IF ~chain \/ reply.kind = "raise" THEN "error"
                ELSE "emit"
           item == [n |-> emitted + 1, id |-> c, kw |-> kw]
       IN /\ dropped => chain
          /\ (r = NoCall) = (dropped \/ ~chain)
          /\ last' = CASE v = "emit" -> [Verdict(comment, v, kw) EXCEPT !.text = reply.s]
                       [] v = "error" ->
                            [Verdict(comment, v, NoKeyword) EXCEPT
                                !.context = TRUE, !.generated = chain]
                       [] OTHER -> Verdict(comment, v, NoKeyword)
          /\ comment' = NoEvent
          /\ IF v # "emit"
             THEN /\ spc' = IF v = "error" THEN AfterCommentError ELSE "stream"
                  /\ UNCHANGED <<emitted, pending_queue, current_pending>>
             ELSE /\ emitted' = emitted + 1
                  /\ IF frontend = "gui"
                     THEN /\ pending_queue' = Append(pending_queue, item)
                          /\ spc' = "stream"
                          /\ UNCHANGED current_pending
                     ELSE /\ current_pending' = item
                          /\ spc' = "prompt"
                          /\ UNCHANGED pending_queue
    /\ UNCHANGED <<fn_call, frontend, runs, storeVars, current_username, stop_event,
                   loaded, pending_buffer, action_buttons, refresh_button,
                   posting_lock, ui_alive, calls, posts, approved, discarded,
                   has_result, completed>>

----------------------------------------------------------------------------
(* Review UI: ui.py 116-220 *)

\* _display_pending
Display(item) ==
    /\ current_pending' = item
    /\ action_buttons' = TRUE
    /\ refresh_button' = TRUE

\* The newest buffered item taken instead of the oldest.
Pop_Last(buffer) ==
    [item |-> buffer[Len(buffer)], rest |-> SubSeq(buffer, 1, Len(buffer) - 1)]

\* self.pending_buffer.pop(0): the item taken and what is left of the buffer
Pop(buffer) == [item |-> Head(buffer), rest |-> Tail(buffer)]

\* _poll_queue, the 500 ms tick: the queue is drained, its PendingReply items
\* into the buffer (an error marker is shown in a message box), and the head of
\* the buffer is shown when nothing is current.
poll_queue ==
    /\ frontend = "gui" /\ ui_alive
    /\ pending_queue' = <<>>
    /\ LET buffer == pending_buffer \o SelectSeq(pending_queue, IsPendingReply)
       IN IF current_pending = NoItem /\ buffer # <<>>
          THEN /\ pending_buffer' = Pop(buffer).rest
               /\ Display(Pop(buffer).item)
          ELSE /\ pending_buffer' = buffer
               /\ UNCHANGED <<current_pending, action_buttons, refresh_button>>
    /\ UNCHANGED <<fn_call, frontend, runs, storeVars, botVars, posting_lock, ui_alive,
                   calls, histVars>>

\* The next buffered item taken instead of the one on display.
ApproveTarget_BufferHead ==
    IF pending_buffer # <<>> THEN Head(pending_buffer) ELSE current_pending

\* pending = self.current_pending: the item the poster thread is given
ApproveTarget == current_pending

\* on_approve without its test of the lock.
PostingLocked_Never == FALSE

\* self._posting_lock.locked()
PostingLocked == posting_lock

\* The smallest thread number not in use.
FreeTid == CHOOSE t \in 1..(Cardinality(calls) + 1) : \A p \in calls : p.tid # t

\* Approve and Skip left enabled when the poster thread is started.
ButtonsWhilePosting_Enabled == TRUE

\* self._set_action_buttons(False), before the poster thread is started
ButtonsWhilePosting == FALSE

\* on_approve, run by a click on the enabled Approve button
on_approve ==
    /\ frontend = "gui" /\ ui_alive /\ action_buttons
    /\ IF current_pending = NoItem \/ PostingLocked
       THEN UNCHANGED <<action_buttons, refresh_button, calls, approved>>
       ELSE /\ action_buttons' = ButtonsWhilePosting
            /\ refresh_button' = FALSE
            /\ calls' = calls \cup {[tid |-> FreeTid, item |-> ApproveTarget,
                                     pc |-> "start", published |-> FALSE]}
            /\ approved' = approved \cup {current_pending.n}
    /\ UNCHANGED <<fn_call, frontend, runs, storeVars, botVars, pending_queue,
                   pending_buffer, current_pending, posting_lock, ui_alive, emitted,
                   posts, discarded, last, has_result, completed>>

\* on_skip, run by a click on the enabled Skip button
on_skip ==
    /\ frontend = "gui" /\ ui_alive /\ action_buttons
    /\ IF current_pending = NoItem
       THEN UNCHANGED <<current_pending, action_buttons, refresh_button, discarded>>
       ELSE /\ current_pending' = NoItem
            /\ action_buttons' = FALSE
            /\ refresh_button' = TRUE
            /\ discarded' = discarded \cup {current_pending.n}
    /\ UNCHANGED <<fn_call, frontend, runs, storeVars, botVars, pending_queue,
                   pending_buffer, posting_lock, ui_alive, calls, emitted, posts,
                   approved, last, has_result, completed>>

\* on_refresh, run by a click on the enabled Refresh button
on_refresh ==
    /\ frontend = "gui" /\ ui_alive /\ refresh_button
    /\ IF current_pending = NoItem /\ pending_buffer # <<>>
       THEN /\ pending_buffer' = Pop(pending_buffer).rest
            /\ Display(Pop(pending_buffer).item)
       ELSE UNCHANGED <<pending_buffer, current_pending, action_buttons, refresh_button>>
    /\ UNCHANGED <<fn_call, frontend, runs, storeVars, botVars, pending_queue,
                   posting_lock, ui_alive, calls, histVars>>

\* on_close: the stop signal is set and the window destroyed
on_close ==
    /\ frontend = "gui" /\ ui_alive
    /\ stop_event' = TRUE
    /\ ui_alive' = FALSE
    /\ UNCHANGED <<fn_call, frontend, runs, storeVars, current_username, spc, comment,
                   loaded, pending_queue, pending_buffer, current_pending,
                   action_buttons, refresh_button, posting_lock, calls, histVars>>

----------------------------------------------------------------------------
(* Posting: bot_core.py 293-306, run by _poster (ui.py 179-196) or by the CLI
   loop (main.py 35-48) *)

Moved(p, pc) == (calls \ {p}) \cup {[p EXCEPT !.pc = pc]}

\* The exception of comment.reply() ends the thread where it is.
AfterReply_Dies(ok) == IF ok THEN "record" ELSE "dead"

\* record_reply reached although comment.reply() raised.
AfterReply_AlwaysRecord(ok) == "record"

\* Where post_reply goes after comment.reply(): on to record_reply, or out by
\* the exception.
AfterReply(ok) == IF ok THEN "record" ELSE "finally"

\* with self._posting_lock: the poster thread waits for the lock and takes it
Acquire(p) ==
    /\ p.pc = "start"
    /\ ~posting_lock
    /\ posting_lock' = TRUE
    /\ calls' = Moved(p, "reply")
    /\ UNCHANGED <<fn_call, frontend, runs, storeVars, botVars, pending_queue,
                   pending_buffer, current_pending, action_buttons, refresh_button,
                   ui_alive, histVars>>

\* pending.comment.reply(body=...): the reply is published, or the call raises
Reply(p) ==
    /\ p.pc = "reply"
    /\ \/ /\ posts' = [posts EXCEPT ![p.item.id] = @ + 1]
          /\ calls' = (calls \ {p}) \cup
                        {[p EXCEPT !.pc = AfterReply(TRUE), !.published = TRUE]}
       \/ /\ calls' = Moved(p, AfterReply(FALSE))
          /\ UNCHANGED posts
    /\ UNCHANGED <<fn_call, frontend, runs, storeVars, botVars, uiVars, emitted,
                   approved, discarded, last, has_result, completed>>

\* record_reply: self.replied_ids_cache.add(comment_id)
RecordCache(p) ==
    /\ p.pc = "record"
    /\ replied_ids_cache' = replied_ids_cache \cup {p.item.id}
    /\ calls' = Moved(p, "append")
    /\ UNCHANGED <<fn_call, frontend, runs, replied_file, botVars, uiVars, histVars>>

\* record_reply: the line is appended to the file, or open/write raises OSError
RecordFile(p) ==
    /\ p.pc = "append"
    /\ calls' = Moved(p, "finally")
    /\ \/ /\ replied_file' = AppendLine(replied_file, p.item.id)
          /\ completed' = completed \cup {p.item.id}
       \/ UNCHANGED <<replied_file, completed>>
    /\ UNCHANGED <<fn_call, frontend, runs, replied_ids_cache, botVars, uiVars, emitted,
                   posts, approved, discarded, last, has_result>>

\* _poster, finally: self.current_pending = None
PosterFinally(p) ==
    /\ p.tid # 0 /\ p.pc = "finally"
    /\ current_pending' = NoItem
    /\ calls' = Moved(p, "clear")
    /\ UNCHANGED <<fn_call, frontend, runs, storeVars, botVars, pending_queue,
                   pending_buffer, action_buttons, refresh_button, posting_lock,
                   ui_alive, histVars>>

\* _poster, finally: _clear_display sets self.current_pending = None
PosterClear(p) ==
    /\ p.pc = "clear"
    /\ current_pending' = NoItem
    /\ calls' = Moved(p, "buttons")
    /\ UNCHANGED <<fn_call, frontend, runs, storeVars, botVars, pending_queue,
                   pending_buffer, action_buttons, refresh_button, posting_lock,
                   ui_alive, histVars>>

\* _poster, finally: _clear_display disables Approve and Skip, enables Refresh
PosterButtons(p) ==
    /\ p.pc = "buttons"
    /\ action_buttons' = FALSE
    /\ refresh_button' = TRUE
    /\ calls' = Moved(p, "release")
    /\ UNCHANGED <<fn_call, frontend, runs, storeVars, botVars, pending_queue,
                   pending_buffer, current_pending, posting_lock, ui_alive, histVars>>

\* _poster: the with block is left, the lock released, the thread ends
PosterRelease(p) ==
    /\ p.pc = "release"
    /\ posting_lock' = FALSE
    /\ calls' = calls \ {p}
    /\ UNCHANGED <<fn_call, frontend, runs, storeVars, botVars, pending_queue,
                   pending_buffer, current_pending, action_buttons, refresh_button,
                   ui_alive, histVars>>

----------------------------------------------------------------------------
(* CLI review loop: main.py 13-53 *)

Answers == {<<"y">>, <<"Y">>, <<"n">>, <<>>}

\* approval.lower() == "y"
Accepts(answer) == Lower(answer) = <<"y">>

\* prompt_user, and the branch of the loop its result selects
prompt_user(answer) ==
    /\ frontend = "cli" /\ spc = "prompt"
    /\ IF Accepts(answer)
       THEN /\ calls' = {[tid |-> 0, item |-> current_pending, pc |-> "reply",
                          published |-> FALSE]}
            /\ approved' = approved \cup {current_pending.n}
            /\ spc' = "post"
            /\ UNCHANGED <<current_pending, discarded>>
       ELSE /\ discarded' = discarded \cup {current_pending.n}
            /\ current_pending' = NoItem
            /\ spc' = "stream"
            /\ UNCHANGED <<calls, approved>>
    /\ UNCHANGED <<fn_call, frontend, runs, storeVars, current_username, stop_event,
                   comment, loaded, pending_queue, pending_buffer,
                   action_buttons, refresh_button, posting_lock, ui_alive, emitted,
                   posts, last, has_result, completed>>

\* post_reply has returned (after its sleep) or raised (logged): the loop asks
\* the generator for the next PendingReply
cli_next(p) ==
    /\ p.tid = 0 /\ p.pc = "finally"
    /\ calls' = calls \ {p}
    /\ current_pending' = NoItem
    /\ spc' = "stream"
    /\ UNCHANGED <<fn_call, frontend, runs, storeVars, current_username, stop_event,
                   comment, loaded, pending_queue, pending_buffer, action_buttons,
                   refresh_button, posting_lock, ui_alive, histVars>>

\* Ctrl-C at any point of the loop: bot.stop(), main returns
KeyboardInterrupt ==
    /\ frontend = "cli" /\ spc \notin {"done", "failed"}
    /\ stop_event' = TRUE
    /\ spc' = "done"
    /\ calls' = {}
    /\ comment' = NoEvent
    /\ loaded' = {}
    /\ current_pending' = NoItem
    /\ UNCHANGED <<fn_call, frontend, runs, storeVars, current_username, pending_queue,
                   pending_buffer, action_buttons, refresh_button, posting_lock,
                   ui_alive, histVars>>

----------------------------------------------------------------------------
(* The program *)

\* RedditBot.__init__, BotUI.__init__: a fresh process
Fresh ==
    /\ replied_ids_cache = {}
    /\ current_username = None
    /\ stop_event = FALSE
    /\ spc = "auth"
    /\ comment = NoEvent
    /\ loaded = {}
    /\ pending_queue = <<>>
    /\ pending_buffer = <<>>
    /\ current_pending = NoItem
    /\ action_buttons = FALSE
    /\ refresh_button = (frontend = "gui")
    /\ posting_lock = FALSE
    /\ ui_alive = (frontend = "gui")
    /\ calls = {}
    /\ last = NoEval
    /\ has_result = NoHas

Init ==
    /\ frontend \in {"gui", "cli"}
    /\ runs = 0
    /\ replied_file = <<>>
    /\ emitted = 0
    /\ posts = [c \in CommentIds |-> 0]
    /\ approved = {}
    /\ discarded = {}
    /\ completed = {}
    /\ fn_call = NoFn
    /\ Fresh

\* The process has ended (window closed, or main returned) and is started
\* again: only the log file is kept.
Restart ==
    /\ runs < MaxRestarts
    /\ \/ frontend = "gui" /\ ~ui_alive
       \/ frontend = "cli" /\ spc \in {"done", "failed"}
    /\ runs' = runs + 1
    /\ replied_ids_cache' = {}
    /\ current_username' = None
    /\ stop_event' = FALSE
    /\ spc' = "auth"
    /\ comment' = NoEvent
    /\ loaded' = {}
    /\ pending_queue' = <<>>
    /\ pending_buffer' = <<>>
    /\ current_pending' = NoItem
    /\ action_buttons' = FALSE
    /\ refresh_button' = (frontend = "gui")
    /\ posting_lock' = FALSE
    /\ ui_alive' = (frontend = "gui")
    /\ calls' = {}
    /\ last' = NoEval
    /\ has_result' = NoHas
    /\ UNCHANGED <<fn_call, frontend, replied_file, emitted, posts, approved,
                   discarded, completed>>

Next ==
    \/ \E name \in UserNames : Authenticate(name)
    \/ AuthenticateFails
    \/ Subscribe
    \/ StreamError
    \/ Wake
    \/ \E c \in CommentIds : Deliver(c)
    \/ LoadRead
    \/ LoadAssign
    \/ \E chain \in BOOLEAN, r \in ApiReplyNames \cup {NoCall} : Evaluate(chain, r)
    \/ poll_queue
    \/ on_approve
    \/ on_skip
    \/ on_refresh
    \/ on_close
    \/ \E p \in calls : Acquire(p)
    \/ \E p \in calls : Reply(p)
    \/ \E p \in calls : RecordCache(p)
    \/ \E p \in calls : RecordFile(p)
    \/ \E p \in calls : PosterFinally(p)
    \/ \E p \in calls : PosterClear(p)
    \/ \E p \in calls : PosterButtons(p)
    \/ \E p \in calls : PosterRelease(p)
    \/ \E answer \in Answers : prompt_user(answer)
    \/ \E p \in calls : cli_next(p)
    \/ KeyboardInterrupt
    \/ Restart

Spec == Init /\ [][Next]_vars

----------------------------------------------------------------------------
(* The review UI in one run that is not closed, with a stream that does not
   fail: the tick keeps running, a started poster thread runs to its end, and
   the operator clicks Approve or Skip while they are enabled *)

LiveInit == Init /\ frontend = "gui"

\* One step of a poster thread
PosterStep ==
    \E p \in calls :
        \/ Acquire(p)
        \/ Reply(p)
        \/ RecordCache(p)
        \/ RecordFile(p)
        \/ PosterFinally(p)
        \/ PosterClear(p)
        \/ PosterButtons(p)
        \/ PosterRelease(p)

\* One step of the stream thread
StreamStep ==
    \/ Authenticate(None)
    \/ Subscribe
    \/ Deliver(c1)
    \/ LoadRead
    \/ LoadAssign
    \/ \E r \in {"text", NoCall} : Evaluate(TRUE, r)

\* A click of the operator
OperatorStep == on_approve \/ on_skip \/ on_refresh

LiveNext == StreamStep \/ poll_queue \/ OperatorStep \/ PosterStep

SpecLive ==
    /\ LiveInit
    /\ [][LiveNext]_vars
    /\ WF_vars(poll_queue)
    /\ WF_vars(PosterStep)
    /\ WF_vars(on_approve \/ on_skip)

----------------------------------------------------------------------------
(* The dedup store on its own: has_already_replied and record_reply called one
   after the other by a single caller, over restarts that keep the file *)

\* Lines the log may grow to.
MaxLog == 3

InitialLogs == {<<>>, AppendLine(<<>>, c1), AppendLine(AppendLine(<<>>, c4), c4)}

\* has_already_replied(id)
StoreHas(id) ==
    /\ replied_ids_cache' = IF CacheLoaded(replied_ids_cache) THEN replied_ids_cache
                            ELSE FileIds(replied_file)
    /\ has_result' = [id |-> id, result |-> id \in replied_ids_cache']
    /\ UNCHANGED <<fn_call, frontend, runs, replied_file, botVars, uiVars, calls, emitted,
                   posts, approved, discarded, last, completed>>

\* record_reply(id): returns, or raises OSError with the cache already updated
StoreRecord(id) ==
    /\ Len(SplitLines(replied_file, <<>>)) < MaxLog
    /\ replied_ids_cache' = replied_ids_cache \cup {id}
    /\ has_result' = NoHas
    /\ \/ /\ replied_file' = AppendLine(replied_file, id)
          /\ completed' = completed \cup {id}
       \/ UNCHANGED <<replied_file, completed>>
    /\ UNCHANGED <<fn_call, frontend, runs, botVars, uiVars, calls, emitted, posts, approved,
                   discarded, last>>

\* A fresh RedditBot on the same file
StoreRestart ==
    /\ runs < MaxRestarts
    /\ runs' = runs + 1
    /\ replied_ids_cache' = {}
    /\ has_result' = NoHas
    /\ UNCHANGED <<fn_call, frontend, replied_file, botVars, uiVars, calls, emitted, posts,
                   approved, discarded, last, completed>>

StoreInit ==
    /\ frontend = "cli"
    /\ runs = 0
    /\ replied_file \in InitialLogs
    /\ emitted = 0
    /\ posts = [c \in CommentIds |-> 0]
    /\ approved = {}
    /\ discarded = {}
    /\ completed = {}
    /\ fn_call = NoFn
    /\ Fresh

StoreNext ==
    \/ \E id \in CommentIds : StoreHas(id)
    \/ \E id \in CommentIds : StoreRecord(id)
    \/ StoreRestart

SpecStore == StoreInit /\ [][StoreNext]_vars

----------------------------------------------------------------------------
(* get_thread_context applied to every trigger comment of every thread *)

ContextInit ==
    /\ frontend = "cli"
    /\ runs = 0
    /\ replied_file = <<>>
    /\ emitted = 0
    /\ posts = [c \in CommentIds |-> 0]
    /\ approved = {}
    /\ discarded = {}
    /\ completed = {}
    /\ Fresh
    /\ \E thread \in Threads, c \in 1..MaxComments :
          fn_call = [fn |-> "get_thread_context", thread |-> thread, comment |-> c,
                     returned |-> FALSE, result |-> <<>>]

ContextApply ==
    /\ fn_call.fn = "get_thread_context"
    /\ ~fn_call.returned
    /\ fn_call' = [fn_call EXCEPT
                      !.returned = TRUE,
                      !.result = get_thread_context(fn_call.thread, fn_call.comment)]
    /\ UNCHANGED <<frontend, runs, storeVars, botVars, uiVars, calls, histVars>>

ContextNext == ContextApply

SpecContext == ContextInit /\ [][ContextNext]_vars

----------------------------------------------------------------------------
(* Prompt resolution: scraper_utils.py 5-80, modes.py 15-72.  A text is a
   sequence of pieces: the brace pairs "{{" and "}}", a blank, or a word. *)

\* The values of Mode
Modes == {"agree", "friendly", "standard", "dunk", "fact_check"}

PROMPT_PLACEHOLDERS ==
    <<"STANCE", "TONE", "MODE_SPECIFIC_GUIDANCE", "LENGTH_REQUIREMENT",
      "PHASE2_REQUIREMENTS", "PHASE4_LENGTH_TARGET">>

Open == "{{"
Close == "}}"
Blank == " "

\* '{{NAME}}'
Token(name) == <<Open, name, Close>>

\* str.replace(old, new): the occurrences of old, found from the left and not
\* overlapping, are replaced by new
RECURSIVE Replace(_, _, _)
Replace(text, old, new) ==
    IF Len(text) < Len(old) THEN text
    ELSE IF SubSeq(text, 1, Len(old)) = old
         THEN new \o Replace(SubSeq(text, Len(old) + 1, Len(text)), old, new)
         ELSE <<Head(text)>> \o Replace(Tail(text), old, new)

\* The instruction texts, one word each; the empty string is the empty text.
stance_instruction(mode) ==
    IF mode \in {"friendly", "dunk", "agree"} THEN <<"stance-" \o mode>>
    ELSE <<"stance-standard">>

tone_instruction(mode) ==
    IF mode \in {"friendly", "dunk", "agree"} THEN <<"tone-" \o mode>>
    ELSE <<"tone-standard">>

mode_specific_guidance(mode) == IF mode = "agree" THEN <<"guidance-agree">> ELSE <<>>

\* length_requirement, phase2_requirements, phase3_requirements,
\* phase4_length_target, phase4_counter_guidance: the default, or the text of
\* agree mode
AgreeOrDefault(word, mode) ==
    IF mode = "agree" THEN <<word \o "-agree">> ELSE <<word \o "-default">>

\* The replacements without the one of TONE.
Replacements_NoTone(mode) ==
    << <<"STANCE", stance_instruction(mode)>>,
       <<"MODE_SPECIFIC_GUIDANCE", mode_specific_guidance(mode)>>,
       <<"LENGTH_REQUIREMENT", AgreeOrDefault("length", mode)>>,
       <<"PHASE2_REQUIREMENTS", AgreeOrDefault("phase2", mode)>>,
       <<"PHASE3_REQUIREMENTS", AgreeOrDefault("phase3", mode)>>,
       <<"PHASE4_LENGTH_TARGET", AgreeOrDefault("phase4-length", mode)>>,
       <<"PHASE4_COUNTER_GUIDANCE", AgreeOrDefault("phase4-counter", mode)>> >>

\* The eight prompt.replace calls, in their order
Replacements(mode) ==
    << <<"STANCE", stance_instruction(mode)>>,
       <<"TONE", tone_instruction(mode)>>,
       <<"MODE_SPECIFIC_GUIDANCE", mode_specific_guidance(mode)>>,
       <<"LENGTH_REQUIREMENT", AgreeOrDefault("length", mode)>>,
       <<"PHASE2_REQUIREMENTS", AgreeOrDefault("phase2", mode)>>,
       <<"PHASE3_REQUIREMENTS", AgreeOrDefault("phase3", mode)>>,
       <<"PHASE4_LENGTH_TARGET", AgreeOrDefault("phase4-length", mode)>>,
       <<"PHASE4_COUNTER_GUIDANCE", AgreeOrDefault("phase4-counter", mode)>> >>

RECURSIVE ReplaceAll(_, _)
ReplaceAll(prompt, replacements) ==
    IF replacements = <<>> THEN prompt
    ELSE ReplaceAll(Replace(prompt, Token(Head(replacements)[1]), Head(replacements)[2]),
                    Tail(replacements))

\* load_llm_prompt, given the text read from llm_prompt.txt
load_llm_prompt(template, mode) == ReplaceAll(template, Replacements(mode))

IsWord(piece) == piece \notin {Open, Close, Blank}

\* re.findall(r"{{\s*([\w_]+)\s*}}", prompt) finds something
HasPlaceholder(text) ==
    \E i, j \in 1..Len(text) :
        /\ i < j /\ text[i] = Open /\ text[j] = Close
        /\ \E a, b \in (i + 1)..(j - 1) :
              /\ a <= b
              /\ \A k \in (i + 1)..(a - 1) : text[k] = Blank
              /\ \A k \in a..b : IsWord(text[k])
              /\ \A k \in (b + 1)..(j - 1) : text[k] = Blank

\* The template names no placeholder but those of PROMPT_PLACEHOLDERS: every
\* "{{" of it opens a token '{{NAME}}' with NAME in the tuple.
IsContractTemplate(template) ==
    \A i \in 1..Len(template) :
        template[i] = Open =>
            /\ i + 2 <= Len(template)
            /\ \E n \in 1..Len(PROMPT_PLACEHOLDERS) :
                  template[i + 1] = PROMPT_PLACEHOLDERS[n]
            /\ template[i + 2] = Close

\* The most segments a template is made of.
MaxSegments == 3

\* What a template is made of: the tokens of the names load_llm_prompt
\* replaces, a token of a name it does not know, a token written with blanks,
\* a word, a blank, and brace pairs on their own.
Segments ==
    {Token(PROMPT_PLACEHOLDERS[n]) : n \in 1..Len(PROMPT_PLACEHOLDERS)}
        \cup {Token("PHASE3_REQUIREMENTS"), Token("PHASE4_COUNTER_GUIDANCE")}
        \cup {Token("EXTRA"), <<Open, Blank, "STANCE", Blank, Close>>,
              <<"w">>, <<Blank>>, <<Open>>, <<Close>>}

RECURSIVE Concat(_)
Concat(segments) ==
    IF segments = <<>> THEN <<>> ELSE Head(segments) \o Concat(Tail(segments))

\* The texts llm_prompt.txt can hold.
Templates ==
    UNION {{Concat(segments) : segments \in [1..k -> Segments]} : k \in 0..MaxSegments}

PromptInit ==
    /\ frontend = "cli"
    /\ runs = 0
    /\ replied_file = <<>>
    /\ emitted = 0
    /\ posts = [c \in CommentIds |-> 0]
    /\ approved = {}
    /\ discarded = {}
    /\ completed = {}
    /\ Fresh
    /\ \E template \in Templates, mode \in Modes :
          fn_call = [fn |-> "load_llm_prompt", template |-> template, mode |-> mode,
                     returned |-> FALSE, result |-> <<>>]

PromptApply ==
    /\ fn_call.fn = "load_llm_prompt"
    /\ ~fn_call.returned
    /\ fn_call' = [fn_call EXCEPT
                      !.returned = TRUE,
                      !.result = load_llm_prompt(fn_call.template, fn_call.mode)]
    /\ UNCHANGED <<frontend, runs, storeVars, botVars, uiVars, calls, histVars>>

PromptNext == PromptApply

SpecPrompt == PromptInit /\ [][PromptNext]_vars

----------------------------------------------------------------------------
(* Prompt configuration: modes.py 65-242.  A table is a function from keys to
   texts. *)

\* The keys named by PROMPT_PLACEHOLDERS
PlaceholderKeys == {PROMPT_PLACEHOLDERS[n] : n \in 1..Len(PROMPT_PLACEHOLDERS)}

\* {}: the dict without keys
EmptyDict == <<>>

BASE_PROMPT_CONFIG ==
    [k \in PlaceholderKeys |->
        IF k = "MODE_SPECIFIC_GUIDANCE" THEN <<>> ELSE <<"base-" \o k>>]

\* The keys a mode's entry of MODE_PROMPT_OVERRIDES holds
OverrideKeys(mode) ==
    IF mode \in {"friendly", "dunk"} THEN {"TONE"} ELSE PlaceholderKeys

MODE_PROMPT_OVERRIDES ==
    [mode \in {"friendly", "dunk", "agree", "fact_check"} |->
        [k \in OverrideKeys(mode) |-> <<mode \o "-" \o k>>]]

\* dict.get(key, default)
DictGet(dict, key, default) == IF key \in DOMAIN dict THEN dict[key] ELSE default

\* The keys already in the table keep their values.
DictUpdate_KeepOld(config, overrides) ==
    [k \in DOMAIN config \cup DOMAIN overrides |->
        IF k \in DOMAIN config THEN config[k] ELSE overrides[k]]

\* config.update(overrides)
DictUpdate(config, overrides) ==
    [k \in DOMAIN config \cup DOMAIN overrides |->
        IF k \in DOMAIN overrides THEN overrides[k] ELSE config[k]]

\* get_prompt_config, given the base table: the table, or the KeyError that
\* names the missing keys
get_prompt_config(base, mode) ==
    LET config == DictUpdate(base, DictGet(MODE_PROMPT_OVERRIDES, mode, EmptyDict))
        missing_keys == {key \in PlaceholderKeys : key \notin DOMAIN config}
    IN IF missing_keys # {}
       THEN [kind |-> "raise", missing |-> missing_keys, config |-> EmptyDict]
       ELSE [kind |-> "dict", missing |-> {}, config |-> config]

\* The base tables tried: BASE_PROMPT_CONFIG, and what is left of it when keys
\* are taken out.
BaseTables == {[k \in keys |-> BASE_PROMPT_CONFIG[k]] : keys \in SUBSET PlaceholderKeys}

ConfigInit ==
    /\ frontend = "cli"
    /\ runs = 0
    /\ replied_file = <<>>
    /\ emitted = 0
    /\ posts = [c \in CommentIds |-> 0]
    /\ approved = {}
    /\ discarded = {}
    /\ completed = {}
    /\ Fresh
    /\ \E base \in BaseTables, mode \in Modes :
          fn_call = [fn |-> "get_prompt_config", base |-> base, mode |-> mode,
                     returned |-> FALSE,
                     result |-> [kind |-> "none", missing |-> {}, config |-> EmptyDict]]

ConfigApply ==
    /\ fn_call.fn = "get_prompt_config"
    /\ ~fn_call.returned
    /\ fn_call' = [fn_call EXCEPT
                      !.returned = TRUE,
                      !.result = get_prompt_config(fn_call.base, fn_call.mode)]
    /\ UNCHANGED <<frontend, runs, storeVars, botVars, uiVars, calls, histVars>>

ConfigNext == ConfigApply

SpecConfig == ConfigInit /\ [][ConfigNext]_vars

----------------------------------------------------------------------------
(* Downward chain extraction: scraper_utils.py 146-183, reddit_scraper.py
   87-102.  A comment tree is the listing Reddit returns: items 1..n, each with
   its kind ("t1" is a comment) and its parent (0 for the top level); the
   children of an item are listed in the order of their numbers. *)

\* The most items of a tree, the deep chain apart.
MaxTreeNodes == 4

\* if depth > 50
DepthLimit == 50

\* No target: the url names no comment
NoTarget == 0

\* A chain of comments longer than the depth limit.
DeepChain ==
    [n |-> DepthLimit + 3,
     parent |-> [c \in 1..(DepthLimit + 3) |-> c - 1],
     kind |-> [c \in 1..(DepthLimit + 3) |-> "t1"]]

Trees ==
    {[n |-> MaxTreeNodes, parent |-> p, kind |-> k] :
        p \in {q \in [1..MaxTreeNodes -> 0..(MaxTreeNodes - 1)] :
                  \A c \in 1..MaxTreeNodes : q[c] < c},
        k \in [1..MaxTreeNodes -> {"t1", "more"}]}
        \cup {DeepChain}

RECURSIVE Ascending(_)
Ascending(set) ==
    IF set = {} THEN <<>>
    ELSE LET least == CHOOSE x \in set : \A y \in set : x <= y
         IN <<least>> \o Ascending(set \ {least})

\* comments_data for 0, replies['data']['children'] for a comment
Children(tree, c) == Ascending({d \in 1..tree.n : tree.parent[d] = c})

\* item['kind'] == 't1'
IsComment(tree, item) == tree.kind[item] = "t1"

\* extract_chain of scraper_utils.py: the comments appended by the call on
\* comment_list at this depth
RECURSIVE extract_chain(_, _, _, _)
extract_chain(tree, target, comment_list, depth) ==
    IF depth > DepthLimit THEN <<>>
    ELSE LET comments == SelectSeq(comment_list, LAMBDA item : IsComment(tree, item))
         IN IF comments = <<>> THEN <<>>
            ELSE LET comment_id == Head(comments)
                 IN IF target # NoTarget /\ comment_id = target THEN <<comment_id>>
                    ELSE IF Children(tree, comment_id) # <<>>
                         THEN <<comment_id>> \o
                              extract_chain(tree, target, Children(tree, comment_id),
                                            depth + 1)
                         ELSE <<comment_id>>

\* extract_chain of reddit_scraper.py: the break is taken only after a comment
\* that has replies
RECURSIVE scraper_extract_chain(_, _)
scraper_extract_chain(tree, comment_list) ==
    IF comment_list = <<>> THEN <<>>
    ELSE LET item == Head(comment_list)
         IN IF ~IsComment(tree, item)
            THEN scraper_extract_chain(tree, Tail(comment_list))
            ELSE IF Children(tree, item) # <<>>
                 THEN <<item>> \o scraper_extract_chain(tree, Children(tree, item))
                 ELSE <<item>> \o scraper_extract_chain(tree, Tail(comment_list))

Extractors == {"scraper_utils", "reddit_scraper"}

ChainInit ==
    /\ frontend = "cli"
    /\ runs = 0
    /\ replied_file = <<>>
    /\ emitted = 0
    /\ posts = [c \in CommentIds |-> 0]
    /\ approved = {}
    /\ discarded = {}
    /\ completed = {}
    /\ Fresh
    /\ \E tree \in Trees, target \in 0..MaxTreeNodes, extractor \in Extractors :
          /\ extractor = "reddit_scraper" => target = NoTarget
          /\ fn_call = [fn |-> "extract_chain", extractor |-> extractor, tree |-> tree,
                        target |-> target, returned |-> FALSE, result |-> <<>>]

ChainApply ==
    /\ fn_call.fn = "extract_chain"
    /\ ~fn_call.returned
    /\ fn_call' = [fn_call EXCEPT
                      !.returned = TRUE,
                      !.result =
                          IF fn_call.extractor = "scraper_utils"
                          THEN extract_chain(fn_call.tree, fn_call.target,
                                             Children(fn_call.tree, 0), 0)
                          ELSE scraper_extract_chain(fn_call.tree,
                                                     Children(fn_call.tree, 0))]
    /\ UNCHANGED <<frontend, runs, storeVars, botVars, uiVars, calls, histVars>>

ChainNext == ChainApply

SpecChain == ChainInit /\ [][ChainNext]_vars

----------------------------------------------------------------------------
(* Claims *)

Items == {pending_queue[i] : i \in {j \in 1..Len(pending_queue) :
                                       IsPendingReply(pending_queue[j])}}
           \cup {pending_buffer[i] : i \in 1..Len(pending_buffer)}
           \cup ({current_pending} \ {NoItem})
           \cup {p.item : p \in calls}

\* C1: over every sequence of deliveries (the same comment more than once
\* included), approvals, skips and restarts, at most one reply is published to
\* a comment id.
C1_AtMostOneReply == \A c \in CommentIds : posts[c] <= 1

\* C2: a reply is published only for an item the operator approved: every
\* running post_reply call is for an item that was the current one when Approve
\* was clicked (or that was answered y in the CLI) and that was never skipped or
\* declined, and no item still queued or buffered was approved.
C2_OnlyApprovedPublished ==
    /\ \A p \in calls : p.item.n \in approved /\ p.item.n \notin discarded
    /\ \A i \in 1..Len(pending_queue) : pending_queue[i].n \notin approved
    /\ \A i \in 1..Len(pending_buffer) : pending_buffer[i].n \notin approved

C2_Witness ==
    /\ \E p \in calls : p.published
    /\ discarded # {}
    /\ pending_buffer # <<>>

\* The calls that hold the posting lock (UI) or are inside post_reply (CLI).
Posting == {p \in calls : p.pc # "start"}

\* C3: at most one publish is in flight at any moment, and while one is, an
\* Approve starts no second poster.
C3_OnePostInFlight ==
    /\ [](Cardinality(Posting) <= 1)
    /\ [][Posting # {} => \A q \in calls' : q.pc = "start" => q \in calls]_vars

\* Approve can be clicked on a current item while a poster holds the lock.
C3_Witness ==
    /\ Posting # {}
    /\ action_buttons
    /\ current_pending # NoItem
    /\ \A p \in calls : p.item # current_pending

\* C4: an event whose id was in the dedup store (cache or log) when it arrived
\* yields no PendingReply.
C4_KnownIdNotEmitted == last.known => last.verdict # "emit"

\* C5: an event authored by the bot's own account yields no PendingReply,
\* whatever user name authentication gave.
C5_OwnCommentNotEmitted ==
    (last.id # NoComment /\ Author(last.id) = BotName) => last.verdict # "emit"

NoKeywordIn(c) ==
    \A i \in 1..Len(KEYWORDS) : ~Contains(KEYWORDS[i], Lower(Body(c)))

\* C6: an event whose lower-cased body contains none of the keywords yields no
\* PendingReply and no call of the chain builder or of the generation.
C6_NoKeywordNoReply ==
    (last.id # NoComment /\ NoKeywordIn(last.id)) =>
        /\ last.verdict # "emit"
        /\ ~last.context
        /\ ~last.generated
        /\ \A it \in Items : it.id # last.id

C6_Witness == last.verdict = "nokw" /\ NoKeywordIn(last.id) /\ emitted > 0

\* The keyword of smallest index in the configured list that occurs in the
\* lower-cased body.
SmallestIndexKeyword(c) ==
    LET hits == {i \in 1..Len(KEYWORDS) : Contains(KEYWORDS[i], Lower(Body(c)))}
    IN KEYWORDS[CHOOSE i \in hits : \A j \in hits : i <= j]

\* C7: the matched_keyword of an emitted PendingReply is the first keyword, in
\* list order, that occurs in the lower-cased body.
C7_FirstKeywordInListOrder ==
    /\ last.verdict = "emit" => last.kw = SmallestIndexKeyword(last.id)
    /\ \A it \in Items : it.kw = SmallestIndexKeyword(it.id)

\* Two keywords occur in the body and the second of the list is not reported.
C7_Witness ==
    /\ last.verdict = "emit"
    /\ Cardinality({i \in 1..Len(KEYWORDS) :
                       Contains(KEYWORDS[i], Lower(Body(last.id)))}) > 1
    /\ last.kw = KEYWORDS[1]
    /\ \E it \in Items : it.id = last.id

\* C8: once record_reply(id) has returned, a has_already_replied(id) call made
\* afterwards is true, in the same run and in a fresh run on the same log: the
\* stream worker's test of such an id ends as a duplicate.
C8_RecordThenHas ==
    (last.recorded /\ last.verdict # "self") => last.verdict = "dup"

\* The same, for has and record called one after the other (SpecStore).
C8_StoreRecordThenHas ==
    (has_result.id # NoComment /\ has_result.id \in completed) => has_result.result

\* C9: after a successful publish the id is in the dedup store before another
\* item can be current or Approve/Skip enabled again.
C9_RecordedBeforeNext ==
    \A p \in calls :
        (p.published /\ p.item.id \notin StoreIds) =>
            /\ current_pending \in {p.item, NoItem}
            /\ ~action_buttons

\* C9, as far as the order of the steps goes: while record_reply of a published
\* item is running, the item is still the current one and Approve/Skip are off.
C9_RecordRunsBeforeNext ==
    \A p \in calls :
        p.pc \in {"record", "append"} =>
            /\ current_pending = p.item
            /\ ~action_buttons

\* C10: an id is in the dedup store only after a publish for that comment
\* succeeded.
C10_OnlyPublishedRecorded == \A c \in StoreIds \cup loaded : posts[c] >= 1

\* An item was skipped or declined, one publish failed, one succeeded, and only
\* the published id is in the store.
C10_Witness ==
    /\ StoreIds # {}
    /\ \E c \in CommentIds : posts[c] = 0 /\ c \notin StoreIds
    /\ discarded # {}
    /\ approved # {}

\* The post_reply calls whose publish raises in this step.
Failing(p) ==
    /\ p.pc = "reply"
    /\ posts' = posts
    /\ \E q \in calls' : q.tid = p.tid /\ q.item = p.item /\ q.pc # "reply"

C12_CurrentUntilDecided ==
    [][(current_pending # NoItem /\ current_pending' # current_pending) =>
          \/ runs' # runs
          \/ stop_event' /\ ~stop_event
          \/ current_pending.n \in discarded' \ discarded
          \/ \E p \in calls : p.item = current_pending /\ p.pc = "finally"]_vars

\* The PendingReply items emitted and not yet shown: on the queue or buffered.
Waiting ==
    {pending_queue[i] : i \in {j \in 1..Len(pending_queue) :
                                  IsPendingReply(pending_queue[j])}}
        \cup {pending_buffer[i] : i \in 1..Len(pending_buffer)}

\* C13: items become current in the order in which the producer emitted them:
\* the item that becomes current is the oldest one waiting (or, in the CLI, the
\* one just emitted), and within a run an item stops waiting only by becoming
\* current, so no item becomes current before an older one has.
C13_CurrentInEmissionOrder ==
    [][/\ (current_pending' # NoItem /\ current_pending' # current_pending) =>
            /\ current_pending' \in Waiting \/ current_pending'.n = emitted + 1
            /\ \A a \in Waiting : a.n >= current_pending'.n
       /\ runs' = runs =>
            \A a \in Waiting : a \in Waiting' \/ a = current_pending']_vars

\* The second item emitted is current, after the first one was, while a third
\* one waits.
C13_Witness ==
    /\ frontend = "gui"
    /\ current_pending.n = 2
    /\ 1 \in approved \cup discarded
    /\ \E a \in Waiting : a.n = 3

\* The texts a generation call can give in the model.
ReplyTexts ==
    LET answered == {x \in ApiReplyNames : ApiReplies[x].data.choices # <<>>}
        contents == {Strip(ApiReplies[x].data.choices[1].content) : x \in answered}
    IN {FALLBACK_REPLY} \cup (contents \ {NoText})

\* C14: an evaluation that reached the generation call (the event passed the
\* self, dedup and keyword filters and its chain was built) emits a
\* PendingReply, whatever the call met, and the text of the PendingReply is not
\* empty: the generated text or the fallback text.
C14_FilteredEventEmitted ==
    last.generated =>
        /\ last.verdict = "emit"
        /\ last.text # NoText
        /\ last.text \in ReplyTexts

\* The evaluation of an event ends in this step with an exception.
CommentError ==
    /\ spc \in {"read", "test"}
    /\ comment' = NoEvent
    /\ runs' = runs /\ stop_event' = stop_event
    /\ last'.verdict = "error"

\* C15: an exception raised while one event is processed is caught inside the
\* producer: no PendingReply is queued or shown for the event, and the producer
\* stays in the iteration of the same stream (it neither returns nor sleeps and
\* resubscribes), where the next event is taken.
C15_EventErrorCaught ==
    [][CommentError =>
          /\ spc' = "stream"
          /\ UNCHANGED <<emitted, pending_queue, pending_buffer, current_pending,
                         ui_alive, calls>>]_vars

\* After the generation call of one event raised, a later event of the stream
\* is being evaluated.
C15_Witness ==
    /\ last.verdict = "error" /\ last.generated
    /\ spc = "test"
    /\ comment.id # last.id

\* C16: a failure of the stream iteration sends the producer into its fixed
\* delay and changes nothing else; when the delay ends with the stop signal not
\* set the producer subscribes again, however often this has happened before;
\* the producer returns only when the stop signal is set, and ends with an
\* exception only from authentication, never from a stream failure.
C16_StreamFailureRetried ==
    /\ [][(spc = "stream" /\ spc' = "sleep") =>
              UNCHANGED <<frontend, runs, storeVars, current_username, stop_event,
                          comment, loaded, uiVars, calls, histVars>>]_vars
    /\ [][(spc = "sleep" /\ spc' # "sleep" /\ runs' = runs
           /\ stop_event' = stop_event /\ ~stop_event) => spc' = "stream"]_vars
    /\ [][(spc' = "failed" /\ runs' = runs) => spc \in {"auth", "failed"}]_vars
    /\ [](spc = "done" => stop_event)

\* The stream has failed after an item was emitted from it, the stop signal is
\* not set, and the producer is in its delay before subscribing again.
C16_Witness ==
    /\ spc = "sleep" /\ ~stop_event
    /\ last.verdict = "emit"
    /\ emitted = 1

\* C17: with the stop signal set, the test before a subscription (the first
\* one, or the one after the delay) makes the producer return, and an event
\* delivered by the stream is not evaluated; once the producer has returned it
\* stays returned for the rest of the run and emits no PendingReply.
C17_StopObserved ==
    /\ [][(spc \in {"loop", "sleep"} /\ stop_event /\ spc' # spc /\ runs' = runs) =>
              spc' = "done"]_vars
    /\ [][(spc = "stream" /\ stop_event /\ runs' = runs) =>
              /\ spc' \in {"stream", "sleep", "done"}
              /\ UNCHANGED <<comment, last, emitted>>]_vars
    /\ [][(spc = "done" /\ runs' = runs) =>
              /\ spc' = "done"
              /\ UNCHANGED <<comment, last, emitted>>
              /\ pending_queue' \in {pending_queue, <<>>}]_vars

\* The window was closed after an item was emitted, and the producer has
\* returned.
C17_Witness ==
    /\ frontend = "gui" /\ runs = 0
    /\ stop_event /\ ~ui_alive
    /\ spc = "done"
    /\ emitted = 1

\* C19: for every Mode, the prompt load_llm_prompt returns for a template whose
\* placeholders are those of PROMPT_PLACEHOLDERS holds no placeholder token.
C19_NoPlaceholderRemains ==
    (/\ fn_call.fn = "load_llm_prompt"
     /\ fn_call.returned
     /\ IsContractTemplate(fn_call.template)) => ~HasPlaceholder(fn_call.result)

\* A template with two placeholders of the tuple, resolved for fact_check: the
\* stance text is in the prompt and the empty guidance has left nothing.
C19_Witness ==
    /\ fn_call.fn = "load_llm_prompt"
    /\ fn_call.returned
    /\ fn_call.mode = "fact_check"
    /\ fn_call.template = Token("STANCE") \o <<"w">> \o Token("MODE_SPECIFIC_GUIDANCE")
    /\ fn_call.result = <<"stance-standard", "w">>

\* C20: no prompt holding an unresolved placeholder is ever returned by the
\* resolution, whatever the template.
C20_UnresolvedFails ==
    (fn_call.fn = "load_llm_prompt" /\ fn_call.returned) =>
        ~HasPlaceholder(fn_call.result)

\* C21: for every Mode, get_prompt_config returns the base table with exactly
\* the keys of the mode's override table replaced by the override values, and
\* the table holds every key of PROMPT_PLACEHOLDERS; when a key of the tuple is
\* in neither table the call raises, naming the missing keys, and returns no
\* table.  With BASE_PROMPT_CONFIG as the base it returns a table for every
\* Mode.
C21_ConfigLayered ==
    (fn_call.fn = "get_prompt_config" /\ fn_call.returned) =>
        LET base == fn_call.base
            overrides == IF fn_call.mode \in DOMAIN MODE_PROMPT_OVERRIDES
                         THEN MODE_PROMPT_OVERRIDES[fn_call.mode] ELSE <<>>
            missing == PlaceholderKeys \ (DOMAIN base \cup DOMAIN overrides)
            result == fn_call.result
        IN /\ IF missing = {}
              THEN /\ result.kind = "dict"
                   /\ DOMAIN result.config = DOMAIN base \cup DOMAIN overrides
                   /\ PlaceholderKeys \subseteq DOMAIN result.config
                   /\ \A k \in DOMAIN overrides : result.config[k] = overrides[k]
                   /\ \A k \in DOMAIN base \ DOMAIN overrides :
                         result.config[k] = base[k]
              ELSE /\ result.kind = "raise"
                   /\ result.missing = missing
           /\ base = BASE_PROMPT_CONFIG => result.kind = "dict"

\* The table of friendly mode over BASE_PROMPT_CONFIG: the tone is the
\* override's, the stance the base's.
C21_Witness ==
    /\ fn_call.fn = "get_prompt_config"
    /\ fn_call.returned
    /\ fn_call.mode = "friendly"
    /\ fn_call.base = BASE_PROMPT_CONFIG
    /\ fn_call.result.kind = "dict"
    /\ fn_call.result.config["TONE"] = <<"friendly-TONE">>
    /\ fn_call.result.config["STANCE"] = <<"base-STANCE">>

\* C22: for every Mode other than standard, the stance or the tone text differs
\* from the one resolved for standard, in the prompt load_llm_prompt returns for
\* a template of the two placeholders and in the table of get_prompt_config.
C22_ModeChangesStanceOrTone ==
    (/\ fn_call.fn = "load_llm_prompt"
     /\ fn_call.returned
     /\ fn_call.mode # "standard"
     /\ fn_call.template = Token("STANCE") \o <<Blank>> \o Token("TONE")) =>
        LET config == get_prompt_config(BASE_PROMPT_CONFIG, fn_call.mode).config
            standard == get_prompt_config(BASE_PROMPT_CONFIG, "standard").config
        IN /\ fn_call.result # load_llm_prompt(fn_call.template, "standard")
           /\ config["STANCE"] # standard["STANCE"] \/ config["TONE"] # standard["TONE"]

\* The ids for which has_already_replied would return True now: the cache, or
\* what a load of the log gives when the cache is empty.
HasTrue ==
    IF CacheLoaded(replied_ids_cache) THEN replied_ids_cache ELSE FileIds(replied_file)

\* C23: the set of ids for which has_already_replied is true only grows over
\* has, record, lazy loads and restarts, and the log is only appended to.
C23_StoreOnlyGrows ==
    [][/\ HasTrue \subseteq HasTrue'
       /\ Len(replied_file) <= Len(replied_file')
       /\ SubSeq(replied_file', 1, Len(replied_file)) = replied_file]_vars

\* C24: under every interleaving of the stream thread (has_already_replied and
\* its lazy load) and the poster threads (record_reply), every id whose
\* record_reply has returned is among the ids has_already_replied reports.
C24_StoreConcurrencySafe == completed \subseteq HasTrue

\* C25: every PendingReply on the queue or in the buffer eventually becomes the
\* current item, when the tick keeps running, every started post finishes and
\* the operator clicks Approve or Skip whenever they stay enabled.
C25_QueuedBecomesCurrent ==
    \A n \in 1..MaxItems :
        (\E a \in Waiting : a.n = n) ~> (current_pending.n = n)

\* C26: in the review UI, when an item is current and no post is in flight or
\* pending (the posting lock is free and no poster thread exists), Approve and
\* Skip are enabled.
C26_CurrentItemActionable ==
    (/\ frontend = "gui" /\ ui_alive
     /\ current_pending # NoItem
     /\ ~posting_lock
     /\ calls = {}) => action_buttons

C28_CacheMirrorsLog ==
    has_result.id # NoComment =>
        (has_result.result <=> has_result.id \in FileIds(replied_file))

\* The walk as C29 describes it: at each level the target is followed when it
\* is among the level's comments, and the first comment otherwise; the walk
\* ends with the target, with a comment without children, or at the depth
\* limit.
RECURSIVE TargetFirstWalk(_, _, _, _)
TargetFirstWalk(tree, target, level, depth) ==
    IF depth > DepthLimit THEN <<>>
    ELSE LET comments == SelectSeq(level, LAMBDA item : IsComment(tree, item))
         IN IF comments = <<>> THEN <<>>
            ELSE LET followed ==
                         IF \E i \in 1..Len(comments) : comments[i] = target
                         THEN target ELSE Head(comments)
                 IN IF followed = target \/ Children(tree, followed) = <<>>
                    THEN <<followed>>
                    ELSE <<followed>> \o
                         TargetFirstWalk(tree, target, Children(tree, followed),
                                         depth + 1)

\* C29: the downward walk of get_comment_chain (scraper_utils.py) collects the
\* comments of the walk that follows, at each level, the target when it is in
\* the level's list and the first comment otherwise, and that stops with the
\* target, with a childless comment or at the depth limit.
C29_WalkFollowsTarget ==
    (/\ fn_call.fn = "extract_chain"
     /\ fn_call.extractor = "scraper_utils"
     /\ fn_call.returned) =>
        fn_call.result =
            TargetFirstWalk(fn_call.tree, fn_call.target, Children(fn_call.tree, 0), 0)

\* C30: what an extractor collects is one path of the tree: the first comment
\* is a top-level one and every later one is a direct reply to the one
\* collected just before it.
C30_SingleLinearPath ==
    (fn_call.fn = "extract_chain" /\ fn_call.returned) =>
        \A i \in 1..Len(fn_call.result) :
            fn_call.tree.parent[fn_call.result[i]] =
                IF i = 1 THEN 0 ELSE fn_call.result[i - 1]

\* The number of ancestor comments of c.
RECURSIVE AncestorDepth(_, _)
AncestorDepth(thread, c) ==
    IF thread.parent[c] = 0 THEN 0 ELSE 1 + AncestorDepth(thread, thread.parent[c])

\* C18: for a trigger comment with n ancestors the walk ends and the context is
\* the submission block (title, body) followed by exactly n + 1 comment blocks:
\* the ancestors from the top-level comment down to the trigger's parent, each a
\* reply to the one before it, then the trigger comment last.
C18_ContextRootToTrigger ==
    (fn_call.fn = "get_thread_context" /\ fn_call.returned) =>
        LET thread == fn_call.thread
            n == AncestorDepth(thread, fn_call.comment)
            parts == fn_call.result
        IN /\ Len(parts) = 2 + n + 1
           /\ parts[1].kind = "Submission Title"
           /\ parts[2].kind = "Submission Body"
           /\ \A k \in 1..n :
                 /\ parts[2 + k].kind = "Parent Comment"
                 /\ parts[2 + k].index = k
                 /\ thread.parent[parts[2 + k].of] = parts[1 + k].of
           /\ parts[n + 3].kind = "Trigger Comment"
           /\ parts[n + 3].of = fn_call.comment
           /\ thread.parent[fn_call.comment] = parts[n + 2].of

\* A trigger three replies deep, with a deleted author on the way.
C18_Witness ==
    /\ fn_call.fn = "get_thread_context" /\ fn_call.returned
    /\ AncestorDepth(fn_call.thread, fn_call.comment) = 3
    /\ Len(fn_call.result) = 6
    /\ fn_call.result[4].author = "[deleted]"

====
